---------------------------- MODULE Spec2Model ----------------------------
(* State-machine model of the two form widgets of the repository:           *)
(*   Checkbox   (src/unnamed/part_000)  - the "SelectionField" of the spec  *)
(*   RadioGroup (src/src/App.tsx)       - the "ChoiceGroup" of the spec     *)
(* A behaviour follows one mounted widget instance: the instances share no  *)
(* state.  One action is one event handled to completion: the handler, the  *)
(* state updates it requests, the effects that run after the update and the *)
(* resulting render.                                                        *)
EXTENDS Integers, Sequences, FiniteSets

VARIABLES
    mounted,     \* which widget instance the behaviour follows
    checkbox,    \* props, state cell and rendered output of the Checkbox
    radioGroup,  \* props, state cell, rendered output and focus of the RadioGroup
    notified,    \* the calls of the change callback made by the last event
    lastOp,      \* the last event handled
    history      \* what has happened since the mount (read by properties only)

vars == <<mounted, checkbox, radioGroup, notified, lastOp, history>>

(* ------------------------------ bounds ---------------------------------- *)
MaxOptions == 3
MaxToggles == 4
MaxPresses == 4

(* --------------------------- JS optionals ------------------------------- *)
\* A prop or a state cell that may be undefined: <<>> is undefined, <<v>> is v.
Undefined == <<>>
Some(v) == <<v>>
OptBool == {Undefined, Some(TRUE), Some(FALSE)}

\* Boolean(x) of an optional boolean: undefined is falsy.
Boolean(x) == x # Undefined /\ x[1]

BoolStr(b) == IF b THEN "true" ELSE "false"
OptBoolStr(x) == IF x = Undefined THEN "undefined" ELSE BoolStr(x[1])
OptStr(x) == IF x = Undefined THEN "undefined" ELSE x[1]

Op(name, arg) == [op |-> name, arg |-> arg]

(* ============================== Checkbox ================================ *)

\* const isControlled = controlledChecked !== undefined   (every render)
CheckboxIsControlled(controlledChecked) == controlledChecked # Undefined

\* Mutant: the accessible state ignores indeterminate.
AriaChecked_NoMixed(indeterminate, checked) == BoolStr(Boolean(checked))

\* aria-checked={indeterminate ? 'mixed' : Boolean(checked)}
AriaChecked(indeterminate, checked) ==
    IF indeterminate THEN "mixed" ELSE BoolStr(Boolean(checked))

\* Mutant: the control mode is the one of the mount, whatever the props are now.
CheckboxRender_StaleMode(cb) ==
    [cb EXCEPT !.inputChecked = Boolean(cb.checked),
               !.ariaChecked = AriaChecked(cb.indeterminate, cb.checked)]

\* One render of Checkbox from its props and its state cell.
CheckboxRender(cb) ==
    [cb EXCEPT !.isControlled = CheckboxIsControlled(cb.controlledChecked),
               !.inputChecked = Boolean(cb.checked),
               !.ariaChecked = AriaChecked(cb.indeterminate, cb.checked)]

\* Mutant: the effect that copies the controlled prop is missing.
CheckboxSyncEffect_Skipped(prev, cb) == cb

\* useEffect(() => { if (isControlled) setChecked(controlledChecked) },
\*           [controlledChecked]) after a render whose previous props were prev.
CheckboxSyncEffect(prev, cb) ==
    IF cb.controlledChecked # prev.controlledChecked
          /\ CheckboxIsControlled(cb.controlledChecked)
    THEN [cb EXCEPT !.checked = cb.controlledChecked]
    ELSE cb

\* Mutant: next = (checked === false), which is not the negation of undefined.
ToggleChecked_StrictFalse(cb) ==
    IF cb.disabled THEN cb.checked
    ELSE IF ~cb.isControlled THEN Some(cb.checked = Some(FALSE))
    ELSE cb.checked

\* function toggle(): the state cell after the call.
ToggleChecked(cb) ==
    IF cb.disabled THEN cb.checked
    ELSE IF ~cb.isControlled THEN Some(~Boolean(cb.checked))
    ELSE cb.checked

\* Mutant: the callback is called before the disabled check.
ToggleNotified_NoGuard(cb) ==
    IF cb.onCheckedChange THEN <<BoolStr(~Boolean(cb.checked))>> ELSE <<>>

\* function toggle(): the calls of onCheckedChange it makes.
ToggleNotified(cb) ==
    IF cb.disabled THEN <<>>
    ELSE IF cb.onCheckedChange THEN <<BoolStr(~Boolean(cb.checked))>>
    ELSE <<>>

\* Mount: useState(isControlled ? controlledChecked : defaultChecked).
CheckboxMount(controlledChecked, defaultChecked, indeterminate, disabled, hasCb) ==
    CheckboxRender(
        [controlledChecked |-> controlledChecked,
         defaultChecked |-> defaultChecked,
         indeterminate |-> indeterminate,
         disabled |-> disabled,
         onCheckedChange |-> hasCb,
         isControlled |-> CheckboxIsControlled(controlledChecked),
         checked |-> IF CheckboxIsControlled(controlledChecked)
                     THEN controlledChecked ELSE defaultChecked,
         inputChecked |-> FALSE,
         ariaChecked |-> "false"])

\* The Checkbox used while the RadioGroup is the mounted widget.
CheckboxIdle == CheckboxMount(Undefined, Undefined, FALSE, FALSE, FALSE)

(* ============================= RadioGroup =============================== *)

OptionKeys == <<"apple", "banana", "cherry", "durian", "elder", "fig">>
Values == {OptionKeys[i] : i \in 1..MaxOptions}
OptValue == {Undefined} \cup {Some(v) : v \in Values}
ArrowKeys == {"ArrowDown", "ArrowRight", "ArrowUp", "ArrowLeft"}
Keys == ArrowKeys \cup {"Enter"}

\* const isControlled = controlledValue !== undefined     (every render)
RadioGroupIsControlled(controlledValue) == controlledValue # Undefined

\* checked: value === child.props.value
ChildChecked(value, child) == value = Some(child.value)

\* Mutant: a render never takes the checked prop back from a Radio.
RadioGroupRender_NeverUnchecks(rg) ==
    [rg EXCEPT !.isControlled = RadioGroupIsControlled(rg.controlledValue),
               !.radioChecked = [i \in 1..Len(rg.options) |->
                                    \/ rg.radioChecked[i]
                                    \/ ChildChecked(rg.value, rg.options[i])]]

\* One render of RadioGroup: the control mode and the checked prop of each Radio.
RadioGroupRender(rg) ==
    [rg EXCEPT !.isControlled = RadioGroupIsControlled(rg.controlledValue),
               !.radioChecked = [i \in 1..Len(rg.options) |->
                                    ChildChecked(rg.value, rg.options[i])]]

\* useEffect(() => { if (isControlled) setValue(controlledValue) },
\*           [controlledValue]) after a render whose previous props were prev.
RadioGroupSyncEffect(prev, rg) ==
    IF rg.controlledValue # prev.controlledValue
          /\ RadioGroupIsControlled(rg.controlledValue)
    THEN [rg EXCEPT !.value = rg.controlledValue]
    ELSE rg

\* Mutant: handleChange stores the value in a controlled group too.
HandleChangeValue_Always(rg, val) == Some(val)

\* function handleChange(val): the state cell after the call.
HandleChangeValue(rg, val) ==
    IF ~rg.isControlled THEN Some(val) ELSE rg.value

\* function handleChange(val): the calls of onChange it makes.
HandleChangeNotified(rg, val) ==
    IF rg.onChange THEN <<val>> ELSE <<>>

\* Mutant: Radio does not pass disabled on to its input.
InputDisabled_NotForwarded(rg, i) == FALSE

\* <input disabled={disabled}> of Radio i.
InputDisabled(rg, i) == rg.options[i].disabled

\* A click on the input of Radio i (by the user or by click()) reaches the
\* onChange of the Radio only if the input is enabled and not yet checked.
ClickChanges(rg, i) == ~InputDisabled(rg, i) /\ ~rg.radioChecked[i]

\* Mutant: the focus moves to a disabled input as well.
FocusInput_Always(rg, i) == i

\* focus() on the input of Radio i: a disabled input does not take focus.
FocusInput(rg, i) == IF InputDisabled(rg, i) THEN rg.activeElement ELSE i

\* Mutant: the index stops at the last option instead of wrapping.
NextIndex_NoWrap(index, length) ==
    IF index + 1 < length THEN index + 1 ELSE index

\* The index onKeyDown computes from the 0-based index of the active input.
NextIndex(index, length) == (index + 1) % length
PrevIndex(index, length) == (index - 1 + length) % length

\* The 1-based position of the Radio an arrow key targets from Radio `active`.
KeyTarget(key, active, length) ==
    IF key \in {"ArrowDown", "ArrowRight"}
    THEN NextIndex(active - 1, length) + 1
    ELSE PrevIndex(active - 1, length) + 1

\* click() reaching Radio i: its onChange calls handleChange(value of Radio i).
ClickInput(rg, i) ==
    IF ClickChanges(rg, i)
    THEN RadioGroupRender(
            [rg EXCEPT !.value = HandleChangeValue(rg, rg.options[i].value)])
    ELSE rg

ClickNotified(rg, i) ==
    IF ClickChanges(rg, i)
    THEN HandleChangeNotified(rg, rg.options[i].value)
    ELSE <<>>

\* function onKeyDown(e): the group after the handler and the re-render.
OnKeyDown(rg, key) ==
    IF rg.activeElement = 0 \/ key \notin ArrowKeys THEN rg
    ELSE LET t == KeyTarget(key, rg.activeElement, Len(rg.options))
         IN ClickInput([rg EXCEPT !.activeElement = FocusInput(rg, t)], t)

OnKeyDownNotified(rg, key) ==
    IF rg.activeElement = 0 \/ key \notin ArrowKeys THEN <<>>
    ELSE ClickNotified(rg, KeyTarget(key, rg.activeElement, Len(rg.options)))

\* Mount: useState(isControlled ? controlledValue : defaultValue).
RadioGroupMount(options, controlledValue, defaultValue, hasCb) ==
    RadioGroupRender(
        [options |-> options,
         controlledValue |-> controlledValue,
         defaultValue |-> defaultValue,
         onChange |-> hasCb,
         isControlled |-> RadioGroupIsControlled(controlledValue),
         value |-> IF RadioGroupIsControlled(controlledValue)
                   THEN controlledValue ELSE defaultValue,
         radioChecked |-> [i \in 1..Len(options) |-> FALSE],
         activeElement |-> 0])

\* The children of a group: n Radio elements with distinct values, each one
\* enabled or disabled.
OptionLists ==
    UNION {{[i \in 1..n |-> [value |-> OptionKeys[i], disabled |-> d[i]]] :
              d \in [1..n -> BOOLEAN]} : n \in 1..MaxOptions}

\* The RadioGroup used while the Checkbox is the mounted widget.
RadioGroupIdle ==
    RadioGroupMount(<<[value |-> OptionKeys[1], disabled |-> FALSE]>>,
                    Undefined, Undefined, FALSE)

(* =============================== Init =================================== *)

\* toggles: the calls of toggle() so far.  steady: the Checkbox has been
\* uncontrolled and enabled ever since the mount.  mountControlled: the control
\* mode at the mount.  runFrom, runDowns: the Radio that had focus when the
\* current run of consecutive ArrowDown presses began, and the presses in it.
HistoryIdle ==
    [toggles |-> 0, steady |-> FALSE, mountControlled |-> FALSE,
     runFrom |-> 0, runDowns |-> 0]

RunReset(h, active) == [h EXCEPT !.runFrom = active, !.runDowns = 0]

\* The run after a keydown seen with focus on `active`, leaving it on `after`.
RunKey(h, key, active, after) ==
    IF active = 0 \/ key \notin ArrowKeys THEN h
    ELSE IF key # "ArrowDown" THEN RunReset(h, after)
    ELSE IF h.runDowns < MaxPresses THEN [h EXCEPT !.runDowns = @ + 1]
    ELSE [h EXCEPT !.runFrom = active, !.runDowns = 1]

InitCheckbox ==
    /\ mounted = "Checkbox"
    /\ \E c \in OptBool, d \in OptBool, ind \in BOOLEAN, dis \in BOOLEAN,
          cb \in BOOLEAN :
          /\ checkbox = CheckboxMount(c, d, ind, dis, cb)
          /\ history = [HistoryIdle EXCEPT
                           !.steady = ~CheckboxIsControlled(c) /\ ~dis,
                           !.mountControlled = CheckboxIsControlled(c)]
    /\ radioGroup = RadioGroupIdle
    /\ notified = <<>>
    /\ lastOp = Op("mount", "")

InitRadioGroup ==
    /\ mounted = "RadioGroup"
    /\ \E o \in OptionLists, c \in OptValue, d \in OptValue, cb \in BOOLEAN :
          /\ radioGroup = RadioGroupMount(o, c, d, cb)
          /\ history = [HistoryIdle EXCEPT
                           !.mountControlled = RadioGroupIsControlled(c)]
    /\ checkbox = CheckboxIdle
    /\ notified = <<>>
    /\ lastOp = Op("mount", "")

Init == InitCheckbox \/ InitRadioGroup

(* ========================== Checkbox actions ============================ *)

\* toggle() is called (the onChange of the input).
Toggle ==
    /\ mounted = "Checkbox"
    /\ history.toggles < MaxToggles
    /\ checkbox' = CheckboxRender([checkbox EXCEPT !.checked = ToggleChecked(checkbox)])
    /\ notified' = ToggleNotified(checkbox)
    /\ history' = [history EXCEPT !.toggles = @ + 1]
    /\ lastOp' = Op("toggle", "")
    /\ UNCHANGED <<mounted, radioGroup>>

\* The owner renders the Checkbox with a new `checked` prop.
SetCheckedProp(c) ==
    /\ mounted = "Checkbox"
    /\ checkbox' = CheckboxRender(CheckboxSyncEffect(checkbox,
                        [checkbox EXCEPT !.controlledChecked = c]))
    /\ notified' = <<>>
    /\ history' = [history EXCEPT !.steady = @ /\ ~CheckboxIsControlled(c)]
    /\ lastOp' = Op("setChecked", OptBoolStr(c))
    /\ UNCHANGED <<mounted, radioGroup>>

\* The owner renders the Checkbox with a new `indeterminate` prop.
SetIndeterminate(b) ==
    /\ mounted = "Checkbox"
    /\ checkbox' = CheckboxRender([checkbox EXCEPT !.indeterminate = b])
    /\ notified' = <<>>
    /\ lastOp' = Op("setIndeterminate", BoolStr(b))
    /\ UNCHANGED <<mounted, radioGroup, history>>

\* The owner renders the Checkbox with a new `disabled` prop.
SetDisabled(b) ==
    /\ mounted = "Checkbox"
    /\ checkbox' = CheckboxRender([checkbox EXCEPT !.disabled = b])
    /\ notified' = <<>>
    /\ history' = [history EXCEPT !.steady = @ /\ ~b]
    /\ lastOp' = Op("setDisabled", BoolStr(b))
    /\ UNCHANGED <<mounted, radioGroup>>

(* ========================= RadioGroup actions =========================== *)

\* Focus moves to the input of an enabled Radio (Tab, or a script).
Focus(i) ==
    /\ mounted = "RadioGroup"
    /\ i \in 1..Len(radioGroup.options)
    /\ ~InputDisabled(radioGroup, i)
    /\ radioGroup' = [radioGroup EXCEPT !.activeElement = i]
    /\ notified' = <<>>
    /\ lastOp' = Op("focus", OptionKeys[i])
    /\ history' = RunReset(history, i)
    /\ UNCHANGED <<mounted, checkbox>>

\* Focus leaves the inputs of the group.
Blur ==
    /\ mounted = "RadioGroup"
    /\ radioGroup' = [radioGroup EXCEPT !.activeElement = 0]
    /\ notified' = <<>>
    /\ lastOp' = Op("blur", "")
    /\ history' = RunReset(history, 0)
    /\ UNCHANGED <<mounted, checkbox>>

\* The user clicks Radio i.  Whether a pointer click also focuses the input
\* depends on the platform.
Click(i) ==
    /\ mounted = "RadioGroup"
    /\ i \in 1..Len(radioGroup.options)
    /\ \E f \in {radioGroup.activeElement, FocusInput(radioGroup, i)} :
          radioGroup' = ClickInput([radioGroup EXCEPT !.activeElement = f], i)
    /\ notified' = ClickNotified(radioGroup, i)
    /\ lastOp' = Op("click", OptionKeys[i])
    /\ history' = RunReset(history, radioGroup'.activeElement)
    /\ UNCHANGED <<mounted, checkbox>>

\* A keydown event reaches the listener of the group's container.
KeyDown(key) ==
    /\ mounted = "RadioGroup"
    /\ radioGroup' = OnKeyDown(radioGroup, key)
    /\ notified' = OnKeyDownNotified(radioGroup, key)
    /\ lastOp' = Op("keydown", key)
    /\ history' = RunKey(history, key, radioGroup.activeElement,
                         radioGroup'.activeElement)
    /\ UNCHANGED <<mounted, checkbox>>

\* The owner renders the RadioGroup with a new `value` prop.
SetValueProp(v) ==
    /\ mounted = "RadioGroup"
    /\ radioGroup' = RadioGroupRender(RadioGroupSyncEffect(radioGroup,
                        [radioGroup EXCEPT !.controlledValue = v]))
    /\ notified' = <<>>
    /\ lastOp' = Op("setValue", OptStr(v))
    /\ UNCHANGED <<mounted, checkbox, history>>

(* =============================== Next =================================== *)

Next ==
    \/ Toggle
    \/ \E c \in OptBool : SetCheckedProp(c)
    \/ \E b \in BOOLEAN : SetIndeterminate(b)
    \/ \E b \in BOOLEAN : SetDisabled(b)
    \/ \E i \in 1..MaxOptions : Focus(i)
    \/ Blur
    \/ \E i \in 1..MaxOptions : Click(i)
    \/ \E key \in Keys : KeyDown(key)
    \/ \E v \in OptValue : SetValueProp(v)

Spec == Init /\ [][Next]_vars


(* ============================= properties =============================== *)

IsCheckbox == mounted = "Checkbox"
IsRadioGroup == mounted = "RadioGroup"

\* The boolean value of the Checkbox, and its value before the first toggle.
BoolValue == Boolean(checkbox.checked)
V0 == Boolean(checkbox.defaultChecked)

Length == Len(radioGroup.options)
\* The position of the Radio whose value is k.
IndexOfKey(k) == CHOOSE i \in 1..Len(OptionKeys) : OptionKeys[i] = k
\* The neighbours of position i in the circular declaration order, 1-based.
After(i) == (i % Length) + 1
Before(i) == ((i - 2 + Length) % Length) + 1
ArrowTarget(key, i) == IF key \in {"ArrowDown", "ArrowRight"} THEN After(i) ELSE Before(i)
\* The step is an arrow key handled while a Radio of the group has focus.
ArrowStep ==
    /\ IsRadioGroup
    /\ lastOp'.op = "keydown"
    /\ lastOp'.arg \in ArrowKeys
    /\ radioGroup.activeElement # 0
\* The Radio that step targets.
StepTarget == ArrowTarget(lastOp'.arg, radioGroup.activeElement)
\* The step leaves the selection of the group and its display as they were.
SelectionUnchanged ==
    /\ radioGroup'.value = radioGroup.value
    /\ radioGroup'.radioChecked = radioGroup.radioChecked

(* ------------------------------- C1 ------------------------------------- *)
\* C1: an uncontrolled, enabled Checkbox whose initial boolean value is v0 has,
\* after n calls of toggle(), the boolean value v0 XOR (n is odd); an absent
\* defaultChecked counts as false.
C1_ToggleParity ==
    (IsCheckbox /\ history.steady) =>
        /\ BoolValue = (V0 # (history.toggles % 2 = 1))
        /\ checkbox.inputChecked = BoolValue

\* Three toggles of a Checkbox mounted without defaultChecked.
C1_Witness ==
    /\ IsCheckbox /\ history.steady
    /\ checkbox.defaultChecked = Undefined
    /\ history.toggles = 3
    /\ lastOp.op = "toggle"
    /\ BoolValue

(* ------------------------------- C2 ------------------------------------- *)
\* C2: selecting a disabled option, by a click on it or by an arrow key that
\* lands on it, leaves the selected value unchanged and does not call the
\* change callback.
C2_DisabledStep ==
    \/ /\ lastOp'.op = "click"
       /\ radioGroup.options[IndexOfKey(lastOp'.arg)].disabled
    \/ /\ ArrowStep
       /\ radioGroup.options[StepTarget].disabled

C2_DisabledSelectNoOp ==
    [][(IsRadioGroup /\ C2_DisabledStep) => (SelectionUnchanged /\ notified' = <<>>)]_vars

\* ArrowDown from apple landed on a disabled banana; a click on that banana.
C2_Witness ==
    /\ IsRadioGroup
    /\ Length = 3
    /\ radioGroup.options[2].disabled
    /\ radioGroup.onChange
    /\ radioGroup.radioChecked[1]
    /\ \/ lastOp = Op("keydown", "ArrowDown") /\ radioGroup.activeElement = 1
       \/ lastOp = Op("click", OptionKeys[2])
    /\ notified = <<>>

(* ------------------------------- C3 ------------------------------------- *)
\* C3 as stated: an arrow key moves the focus to the neighbour (i+1) mod n or
\* (i-1+n) mod n and selects it.
C3_Original ==
    [][ArrowStep =>
          /\ radioGroup'.activeElement = StepTarget
          /\ (~radioGroup.isControlled =>
                radioGroup'.value = Some(radioGroup.options[StepTarget].value))]_vars

\* C3 amended: an arrow key moves the focus to the neighbour (i+1) mod n or
\* (i-1+n) mod n and selects it when that neighbour is enabled: an uncontrolled
\* group then stores and displays its value, a controlled group requests it from
\* its owner unless it is displayed already.  When the neighbour is disabled the
\* focus and the selection stay where they were.
C3_ArrowSelectsEnabledNeighbour ==
    [][ArrowStep =>
          LET t == StepTarget
              k == radioGroup.options[t].value
          IN IF radioGroup.options[t].disabled
             THEN /\ radioGroup'.activeElement = radioGroup.activeElement
                  /\ SelectionUnchanged
                  /\ notified' = <<>>
             ELSE /\ radioGroup'.activeElement = t
                  /\ ~radioGroup.isControlled =>
                        /\ radioGroup'.value = Some(k)
                        /\ radioGroup'.radioChecked[t]
                  /\ radioGroup.isControlled =>
                        /\ SelectionUnchanged
                        /\ (radioGroup.onChange /\ ~radioGroup.radioChecked[t])
                              => notified' = <<k>>]_vars

\* [apple, banana, cherry], default apple: the third ArrowDown wrapped from
\* cherry to apple.
C3_Witness ==
    /\ IsRadioGroup
    /\ ~history.mountControlled /\ ~radioGroup.isControlled
    /\ radioGroup.defaultValue = Some("apple")
    /\ Length = 3
    /\ history.runFrom = 1 /\ history.runDowns = 3
    /\ lastOp = Op("keydown", "ArrowDown")
    /\ radioGroup.activeElement = 1
    /\ radioGroup.value = Some("apple")
    /\ notified = <<"apple">>

(* ------------------------------- C4 ------------------------------------- *)
\* C4: in a controlled group a selection of an enabled option calls the change
\* callback with its key and leaves the displayed selection as it was; the
\* display changes only when the owner supplies another controlled value, and
\* then shows that value.
C4_ControlledSelect ==
    [][(IsRadioGroup /\ radioGroup.isControlled) =>
          /\ (lastOp'.op = "click" /\ radioGroup.onChange) =>
                LET i == IndexOfKey(lastOp'.arg)
                IN (~radioGroup.options[i].disabled /\ ~radioGroup.radioChecked[i])
                      => notified' = <<radioGroup.options[i].value>>
          /\ radioGroup'.controlledValue = radioGroup.controlledValue
                => SelectionUnchanged
          /\ radioGroup'.isControlled =>
                \A i \in 1..Length :
                   radioGroup'.radioChecked[i] =
                      (radioGroup'.controlledValue = Some(radioGroup.options[i].value))]_vars

\* A click on banana in a group controlled at apple: the owner was told and
\* apple is still displayed.
C4_Witness ==
    /\ IsRadioGroup
    /\ radioGroup.isControlled
    /\ radioGroup.controlledValue = Some("apple")
    /\ lastOp = Op("click", "banana")
    /\ notified = <<"banana">>
    /\ radioGroup.radioChecked[1] /\ ~radioGroup.radioChecked[2]

(* ------------------------------- C5 ------------------------------------- *)
\* C5: the accessible checked state is "mixed" when indeterminate and the
\* boolean value otherwise; setting indeterminate does not change the boolean
\* value; toggle() does not change indeterminate and, in an enabled
\* uncontrolled Checkbox, flips the boolean value.
C5_Aria ==
    IsCheckbox =>
        checkbox.ariaChecked =
            (IF checkbox.indeterminate THEN "mixed" ELSE BoolStr(BoolValue))

C5_Steps ==
    IsCheckbox =>
        /\ lastOp'.op = "setIndeterminate" =>
              Boolean(checkbox'.checked) = BoolValue
        /\ lastOp'.op = "toggle" =>
              /\ checkbox'.indeterminate = checkbox.indeterminate
              /\ (~checkbox.disabled /\ ~checkbox.isControlled) =>
                    Boolean(checkbox'.checked) = ~BoolValue

C5_IndeterminateIndependent == []C5_Aria /\ [][C5_Steps]_vars

\* indeterminate=true, defaultChecked=false, one toggle: the value is true and
\* the accessible state still "mixed".
C5_Witness ==
    /\ IsCheckbox /\ history.steady
    /\ checkbox.indeterminate
    /\ checkbox.defaultChecked = Some(FALSE)
    /\ history.toggles = 1 /\ lastOp.op = "toggle"
    /\ BoolValue
    /\ checkbox.ariaChecked = "mixed"

(* ------------------------------- C6 ------------------------------------- *)
\* C6: toggle() on a disabled Checkbox, controlled or not, leaves the boolean
\* value unchanged and does not call the change callback.
C6_DisabledToggleNoOp ==
    [][(IsCheckbox /\ checkbox.disabled /\ lastOp'.op = "toggle") =>
          /\ checkbox'.checked = checkbox.checked
          /\ checkbox'.inputChecked = checkbox.inputChecked
          /\ notified' = <<>>]_vars

\* toggle() was called on a disabled uncontrolled Checkbox that has a callback.
C6_Witness ==
    /\ IsCheckbox
    /\ checkbox.disabled
    /\ checkbox.onCheckedChange
    /\ ~checkbox.isControlled
    /\ lastOp.op = "toggle"
    /\ notified = <<>>
    /\ ~BoolValue

(* ------------------------------- C7 ------------------------------------- *)
\* C7: at most one Radio is rendered checked, and a Radio is rendered checked
\* only if its value is the selected value of the group.
C7_AtMostOneSelected ==
    IsRadioGroup =>
        /\ Cardinality({i \in 1..Length : radioGroup.radioChecked[i]}) <= 1
        /\ \A i \in 1..Length :
              radioGroup.radioChecked[i] =>
                 radioGroup.value = Some(radioGroup.options[i].value)

\* A click moved the selection of an uncontrolled group from apple to cherry.
C7_Witness ==
    /\ IsRadioGroup
    /\ Length = 3
    /\ radioGroup.defaultValue = Some("apple")
    /\ ~history.mountControlled /\ ~radioGroup.isControlled
    /\ lastOp = Op("click", "cherry")
    /\ radioGroup.radioChecked[3]
    /\ ~radioGroup.radioChecked[1]

(* ------------------------------- C8 ------------------------------------- *)
\* C8: while a widget is controlled its state cell equals the controlled prop
\* after every event, and toggles, clicks, key presses and focus changes leave
\* the state cell as it was.
C8_Mirror ==
    /\ (IsCheckbox /\ checkbox.isControlled) =>
          checkbox.checked = checkbox.controlledChecked
    /\ (IsRadioGroup /\ radioGroup.isControlled) =>
          radioGroup.value = radioGroup.controlledValue

C8_Interaction ==
    /\ (IsCheckbox /\ checkbox.isControlled /\ lastOp'.op = "toggle") =>
          checkbox'.checked = checkbox.checked
    /\ (IsRadioGroup /\ radioGroup.isControlled
           /\ lastOp'.op \in {"click", "keydown", "focus", "blur"}) =>
          radioGroup'.value = radioGroup.value

C8_ControlledMirrorInSync == []C8_Mirror /\ [][C8_Interaction]_vars

\* The owner answered a toggle of a Checkbox controlled at false by supplying
\* true.
C8_Witness ==
    /\ IsCheckbox
    /\ history.mountControlled
    /\ history.toggles = 1
    /\ lastOp = Op("setChecked", "true")
    /\ checkbox.checked = Some(TRUE)
    /\ checkbox.inputChecked

(* ------------------------------- C9 ------------------------------------- *)
\* C9 as stated: the control mode of a widget never changes after the mount.
C9_Original ==
    [][/\ IsCheckbox => checkbox'.isControlled = checkbox.isControlled
       /\ IsRadioGroup => radioGroup'.isControlled = radioGroup.isControlled]_vars

\* C9 amended: the control mode of a widget is, after every event, whether its
\* controlled prop is supplied; it changes only when the owner makes that prop
\* appear or disappear, and no user interaction changes it.
C9_Mode ==
    /\ IsCheckbox =>
          checkbox.isControlled = (checkbox.controlledChecked # Undefined)
    /\ IsRadioGroup =>
          radioGroup.isControlled = (radioGroup.controlledValue # Undefined)

C9_ModeChange ==
    /\ (IsCheckbox /\ checkbox'.isControlled # checkbox.isControlled) =>
          /\ lastOp'.op = "setChecked"
          /\ (checkbox'.controlledChecked = Undefined)
                # (checkbox.controlledChecked = Undefined)
    /\ (IsRadioGroup /\ radioGroup'.isControlled # radioGroup.isControlled) =>
          /\ lastOp'.op = "setValue"
          /\ (radioGroup'.controlledValue = Undefined)
                # (radioGroup.controlledValue = Undefined)

C9_ModeFollowsProp == []C9_Mode /\ [][C9_ModeChange]_vars

\* A group mounted controlled is uncontrolled after its owner dropped the
\* value prop, and keeps the last controlled value.
C9_Witness ==
    /\ IsRadioGroup
    /\ history.mountControlled
    /\ ~radioGroup.isControlled
    /\ lastOp = Op("setValue", "undefined")
    /\ radioGroup.value = Some("banana")

(* ------------------------------- C10 ------------------------------------ *)
\* C10 as stated: every arrow key moves the focus to its target, so k ArrowDown
\* presses in a row from Radio s leave the focus k places after s in the
\* circular declaration order.
C10_Original ==
    (IsRadioGroup /\ history.runFrom # 0) =>
        radioGroup.activeElement =
            ((history.runFrom - 1 + history.runDowns) % Length) + 1

\* The Radio that has focus after k ArrowDown presses in a row from Radio s.
RECURSIVE Walk(_, _)
Walk(s, k) ==
    IF k = 0 THEN s
    ELSE LET p == Walk(s, k - 1)
         IN IF radioGroup.options[After(p)].disabled THEN p ELSE After(p)

\* C10 amended: an arrow key targets the neighbour (i+1) mod n or (i-1+n) mod n
\* in the full declaration-order list, disabled options included; the focus
\* moves to the target when it is enabled and stays when it is disabled, so
\* ArrowDown presses in a row visit the options in order up to the first
\* disabled one, and all of them when none is disabled.
C10_Run ==
    (IsRadioGroup /\ history.runFrom # 0) =>
        radioGroup.activeElement = Walk(history.runFrom, history.runDowns)

C10_Step ==
    ArrowStep =>
        radioGroup'.activeElement =
            (IF radioGroup.options[StepTarget].disabled
             THEN radioGroup.activeElement ELSE StepTarget)

C10_FocusStopsAtDisabled == []C10_Run /\ [][C10_Step]_vars

\* Three ArrowDown presses from apple in [apple, banana, cherry (disabled)]:
\* the focus reached banana and stayed there.
C10_Witness ==
    /\ IsRadioGroup
    /\ Length = 3
    /\ ~radioGroup.options[2].disabled /\ radioGroup.options[3].disabled
    /\ history.runFrom = 1 /\ history.runDowns = 3
    /\ lastOp = Op("keydown", "ArrowDown")
    /\ radioGroup.activeElement = 2

=============================================================================
